---- MODULE Spec2Model ----
(***************************************************************************)
(* Model of src/getresult.js: the GET /getresult/:transactionId route, the *)
(* CBE extractor parseFT, the Telebirr extractor parseTelebirr and the     *)
(* audit helper logToDatabase.                                             *)
(*                                                                         *)
(* JavaScript strings are TLA+ strings, read character by character with   *)
(* SubSeq; a JavaScript value that may be null is a tagged record.  The    *)
(* Amharic half of each Telebirr label is written in ASCII transliteration *)
(* because the module text is ASCII; the labels are only ever compared     *)
(* with themselves.                                                        *)
(***************************************************************************)
EXTENDS Integers, Sequences, FiniteSets, TLC

VARIABLES
    pc,             \* per lookup: position of the async route handler
    transactionId,  \* per lookup: req.params.transactionId
    link,           \* per lookup: the fetch URL built by the route
    calls,          \* per lookup: extractor invocations made, in order
    fetched,        \* per lookup: what axios.get / pdfParse resolved with
    result,         \* per lookup: the record returned by the extractor
    responses,      \* per lookup: responses sent with res.json, in order
    thrown,         \* per lookup: the error caught at line 145, if any
    ip,             \* per lookup: line 127
    userAgent,      \* per lookup: line 128
    logs            \* rows of the logs table, in insertion order

vars ==
    <<pc, transactionId, link, calls, fetched, result, responses, thrown, ip,
      userAgent, logs>>

(***************************************************************************)
(* Bounds of the model.                                                    *)
(***************************************************************************)
MaxRequests == 2    \* lookups in flight at once
MaxMissing == 2     \* labels left out of one generated receipt

(***************************************************************************)
(* JavaScript strings and values.                                          *)
(***************************************************************************)
At(s, i) == SubSeq(s, i, i)

\* \s of the regular expressions and the characters String.trim removes
IsSpace(c) == c \in {" ", "\n", "\r", "\t"}

IsDigit(c) == c \in {"0", "1", "2", "3", "4", "5", "6", "7", "8", "9"}

LowerOf ==
    "A" :> "a" @@ "B" :> "b" @@ "C" :> "c" @@ "D" :> "d" @@ "E" :> "e" @@
    "F" :> "f" @@ "G" :> "g" @@ "H" :> "h" @@ "I" :> "i" @@ "J" :> "j" @@
    "K" :> "k" @@ "L" :> "l" @@ "M" :> "m" @@ "N" :> "n" @@ "O" :> "o" @@
    "P" :> "p" @@ "Q" :> "q" @@ "R" :> "r" @@ "S" :> "s" @@ "T" :> "t" @@
    "U" :> "u" @@ "V" :> "v" @@ "W" :> "w" @@ "X" :> "x" @@ "Y" :> "y" @@
    "Z" :> "z"

\* case folding of the regular expression flag 'i'
Fold(c) == IF c \in DOMAIN LowerOf THEN LowerOf[c] ELSE c

\* String.prototype.includes
Includes(s, sub) ==
    \E i \in 1..(Len(s) - Len(sub) + 1) : SubSeq(s, i, i + Len(sub) - 1) = sub

\* String.prototype.startsWith
StartsWith(s, prefix) ==
    Len(s) >= Len(prefix) /\ SubSeq(s, 1, Len(prefix)) = prefix

RECURSIVE TrimLeft(_)
TrimLeft(s) ==
    IF Len(s) > 0 /\ IsSpace(At(s, 1)) THEN TrimLeft(SubSeq(s, 2, Len(s))) ELSE s

RECURSIVE TrimRight(_)
TrimRight(s) ==
    IF Len(s) > 0 /\ IsSpace(At(s, Len(s)))
    THEN TrimRight(SubSeq(s, 1, Len(s) - 1))
    ELSE s

\* String.prototype.trim
Trim(s) == TrimRight(TrimLeft(s))

JsNull == [type |-> "null"]
JsStr(s) == [type |-> "string", value |-> s]

\* JavaScript truthiness of a string-or-null value
Truthy(v) == v.type = "string" /\ v.value # ""

\* a || b
OrElse(a, b) == IF Truthy(a) THEN a ELSE b

(***************************************************************************)
(* parseFT: whitespace normalisation (line 50).                            *)
(***************************************************************************)
\* first index >= i that holds no whitespace character
RECURSIVE SkipSpace(_, _)
SkipSpace(s, i) ==
    IF i <= Len(s) /\ IsSpace(At(s, i)) THEN SkipSpace(s, i + 1) ELSE i

\* what .replace(/\r?\n/g, ' ') leaves of the character at index i
NewlineAt(s, i) ==
    IF At(s, i) = "\n" THEN " "
    ELSE IF At(s, i) = "\r" /\ i < Len(s) /\ At(s, i + 1) = "\n" THEN ""
    ELSE At(s, i)

\* the replacement applied to s[lo..hi], by halves
RECURSIVE ReplaceNewlines(_, _, _)
ReplaceNewlines(s, lo, hi) ==
    IF lo > hi THEN ""
    ELSE IF lo = hi THEN NewlineAt(s, lo)
    ELSE LET mid == (lo + hi) \div 2
         IN  ReplaceNewlines(s, lo, mid) \o ReplaceNewlines(s, mid + 1, hi)

\* what .replace(/\s\s+/g, ' ') leaves of the character at index i: a run of
\* two or more whitespace characters becomes one space, written at the run's
\* first index; a lone whitespace character is kept as it is
CollapseAt(s, i) ==
    IF ~IsSpace(At(s, i)) THEN At(s, i)
    ELSE IF i > 1 /\ IsSpace(At(s, i - 1)) THEN ""
    ELSE IF i < Len(s) /\ IsSpace(At(s, i + 1)) THEN " "
    ELSE At(s, i)

RECURSIVE CollapseSpace(_, _, _)
CollapseSpace(s, lo, hi) ==
    IF lo > hi THEN ""
    ELSE IF lo = hi THEN CollapseAt(s, lo)
    ELSE LET mid == (lo + hi) \div 2
         IN  CollapseSpace(s, lo, mid) \o CollapseSpace(s, mid + 1, hi)

\* line 50
FlattenText(pdfText) ==
    LET unbroken == ReplaceNewlines(pdfText, 1, Len(pdfText))
    IN  CollapseSpace(unbroken, 1, Len(unbroken))

(***************************************************************************)
(* parseFT.extract (lines 52-56).  A pattern is a literal, matched with    *)
(* case folding, followed by a number of \d; none of the literals of       *)
(* lines 58-65 holds an unescaped metacharacter.                           *)
(***************************************************************************)
Lit(s) == [lit |-> s, digits |-> 0]
LitDigits(s, n) == [lit |-> s, digits |-> n]

PatLen(p) == Len(p.lit) + p.digits

MatchesAt(p, text, i) ==
    /\ i >= 1
    /\ i + PatLen(p) - 1 <= Len(text)
    /\ \A k \in 1..Len(p.lit) : Fold(At(text, i + k - 1)) = Fold(At(p.lit, k))
    /\ \A k \in 1..p.digits : IsDigit(At(text, i + Len(p.lit) + k - 1))

\* text.match(label\s*(.*?)\s*after) succeeds from start position i: every
\* 'after' of lines 58-65 starts with a letter, so \s* and .*? can always
\* be stretched up to a later occurrence of it (the flattened texts of the
\* model hold no lone carriage return, the one character left that '.' would
\* not match)
MatchFrom(text, label, after, i) ==
    /\ MatchesAt(label, text, i)
    /\ \E j \in (i + PatLen(label))..Len(text) : MatchesAt(after, text, j)

\* start of the whitespace run that ends just before j, not below p
RECURSIVE BackSpace(_, _, _)
BackSpace(s, p, j) ==
    IF j > p /\ IsSpace(At(s, j - 1)) THEN BackSpace(s, p, j - 1) ELSE j

\* match[1]: the greedy \s* takes the whitespace after the label, the lazy
\* group stops at the first place from which \s*after matches
Group1(text, label, after, i) ==
    LET p == SkipSpace(text, i + PatLen(label))
        j == CHOOSE j \in p..Len(text) :
                 /\ MatchesAt(after, text, j)
                 /\ \A k \in p..(j - 1) : ~MatchesAt(after, text, k)
        e == BackSpace(text, p, j)
    IN  SubSeq(text, p, e - 1)

\* extract with the empty string, not null, for a pattern that does not match
extractOrEmpty(text, label, after) ==
    LET starts == {i \in 1..Len(text) : MatchFrom(text, label, after, i)}
    IN  IF starts = {} THEN JsStr("")
        ELSE LET first == CHOOSE i \in starts : \A k \in starts : i <= k
             IN  JsStr(Trim(Group1(text, label, after, first)))

extract(text, label, after) ==
    LET starts == {i \in 1..Len(text) : MatchFrom(text, label, after, i)}
    IN  IF starts = {} THEN JsNull
        ELSE LET first == CHOOSE i \in starts : \A k \in starts : i <= k
             IN  JsStr(Trim(Group1(text, label, after, first)))

ReceiverAccountFallback == "1000009338067"

\* lines 58-65: the eight matches, from the flattened text on
parseFTMatches(text) ==
    [payer |-> extract(text, Lit("Payer"), Lit("Account")),
     payerAccount |-> extract(text, Lit("Account"), Lit("Receiver")),
     receiver |-> extract(text, Lit("Receiver"), Lit("Account")),
     receiverAccount |->
         OrElse(extract(text, LitDigits("Account 1****", 4),
                        Lit("Payment Date & Time")),
                JsStr(ReceiverAccountFallback)),
     dateTime |-> extract(text, Lit("Payment Date & Time"), Lit("Reference No")),
     reference |-> extract(text, Lit("Reference No. (VAT Invoice No)"), Lit("Reason")),
     reason |-> extract(text, Lit("Reason / Type of service"),
                        Lit("Transferred Amount")),
     totalAmount |-> extract(text, Lit("Total amount debited from customers account"),
                             Lit("Amount in Word"))]

\* the data map written with shorthand properties, which keeps the names of
\* the local constants dateTime and reference as keys
parseFTDataShorthand(found) ==
    [payer |-> found.payer,
     payerAccount |-> OrElse(found.payerAccount, JsStr("Unknown")),
     receiver |-> found.receiver,
     receiverAccount |-> found.receiverAccount,
     dateTime |-> found.dateTime,
     reference |-> found.reference,
     reason |-> found.reason,
     totalAmount |-> IF Truthy(found.totalAmount)
                     THEN JsStr(found.totalAmount.value \o " ETB")
                     ELSE JsStr("Unknown")]

\* lines 71-80
parseFTData(found) ==
    [payer |-> found.payer,
     payerAccount |-> OrElse(found.payerAccount, JsStr("Unknown")),
     receiver |-> found.receiver,
     receiverAccount |-> found.receiverAccount,
     paymentDateTime |-> found.dateTime,
     referenceNo |-> found.reference,
     reason |-> found.reason,
     totalAmount |-> IF Truthy(found.totalAmount)
                     THEN JsStr(found.totalAmount.value \o " ETB")
                     ELSE JsStr("Unknown")]

parseFTFields(text) == parseFTData(parseFTMatches(text))

\* the record parseFT returns once pdfParse has resolved with pdfText
parseFT(pdfText, l, tid) ==
    [source |-> "CBE",
     transactionId |-> tid,
     link |-> l,
     data |-> parseFTFields(FlattenText(pdfText))]

(***************************************************************************)
(* parseTelebirr (lines 85-122).  The fetched page is a preamble and one   *)
(* table: a sequence of rows (tr), each a sequence of cells (td) with a    *)
(* class list and a text.  Html is the page as axios hands it over; the    *)
(* tree cheerio.load builds from it is the row sequence itself.            *)
(***************************************************************************)
Sentinel == "This request is not correct"

InvalidIdMessage == "Invalid Telebirr transaction ID"

PayerNameLabel == "YeKefay Sim/Payer Name"
PayerNumberLabel == "YeKefay telebirr Ku./Payer telebirr no."
CreditedPartyLabel == "YeGenzeb Tekebay Sim/Credited Party name"
PaymentReasonLabel == "YeKifiyaw Mikniyat/Payment Reason"
BankAccountLabel == "YeBank Akawnt Kutir/Bank account number"
TotalPaidLabel == "Teklala YeTekefele/Total Paid Amount"

RECURSIVE ClassAttr(_)
ClassAttr(cls) ==
    IF cls = <<>> THEN ""
    ELSE IF Len(cls) = 1 THEN cls[1]
    ELSE cls[1] \o " " \o ClassAttr(Tail(cls))

RECURSIVE CellsHtml(_)
CellsHtml(cells) ==
    IF cells = <<>> THEN ""
    ELSE "<td class=\"" \o ClassAttr(cells[1].cls) \o "\">" \o cells[1].text
         \o "</td>" \o CellsHtml(Tail(cells))

RECURSIVE RowsHtml(_)
RowsHtml(rows) ==
    IF rows = <<>> THEN ""
    ELSE "<tr>" \o CellsHtml(rows[1]) \o "</tr>" \o RowsHtml(Tail(rows))

\* htmlResponse.data
Html(page) == page.pre \o "<table>" \o RowsHtml(page.rows) \o "</table>"

\* positions <<row, cell>> of the page, compared in document order
Before(a, b) == a[1] < b[1] \/ (a[1] = b[1] /\ a[2] <= b[2])

Positions(rows) ==
    UNION {{<<i, j>> : j \in 1..Len(rows[i])} : i \in 1..Len(rows)}

\* the texts of the cells at the positions of set, joined in document order
RECURSIVE JoinText(_, _)
JoinText(rows, set) ==
    IF set = {} THEN ""
    ELSE LET first == CHOOSE a \in set : \A b \in set : Before(a, b)
         IN  rows[first[1]][first[2]].text \o JoinText(rows, set \ {first})

\* the lookup without its trim()
NextCellTextUntrimmed(rows, label) ==
    LET labelled == {pos \in Positions(rows) :
                        Includes(rows[pos[1]][pos[2]].text, label)}
        nexts == {<<pos[1], pos[2] + 1>> : pos \in
                     {q \in labelled : q[2] < Len(rows[q[1]])}}
    IN  JoinText(rows, nexts)

\* $('td:contains("label")').next().text().trim()
NextCellText(rows, label) ==
    LET labelled == {pos \in Positions(rows) :
                        Includes(rows[pos[1]][pos[2]].text, label)}
        nexts == {<<pos[1], pos[2] + 1>> : pos \in
                     {q \in labelled : q[2] < Len(rows[q[1]])}}
    IN  Trim(JoinText(rows, nexts))

\* the cells $('td.receipttableTd2') selects
MarkerCells(rows) ==
    {pos \in Positions(rows) :
        \E k \in 1..Len(rows[pos[1]][pos[2]].cls) :
            rows[pos[1]][pos[2]].cls[k] = "receipttableTd2"}

\* <row>.next().find('td').eq(n).text().trim(), n counted from zero; hasRow
\* tells whether the selection <row> holds an element at all
RowBelowText(rows, hasRow, i, n) ==
    IF hasRow /\ i + 1 <= Len(rows) /\ n + 1 <= Len(rows[i + 1])
    THEN Trim(rows[i + 1][n + 1].text)
    ELSE ""

\* lines 101-104
ReceiptFields(rows) ==
    LET markers == MarkerCells(rows)
        hasHeader == markers # {}
        receiptHeader == IF hasHeader
                         THEN CHOOSE a \in markers : \A b \in markers : Before(a, b)
                         ELSE <<0, 0>>
        \* receiptHeader.next(): empty when the marker cell ends its row
        hasDateHeader == hasHeader /\ receiptHeader[2] < Len(rows[receiptHeader[1]])
    IN  [receiptNumber |-> RowBelowText(rows, hasHeader, receiptHeader[1], 0),
         paymentDate |-> RowBelowText(rows, hasDateHeader, receiptHeader[1], 1)]

\* the sentinel looked for at the start of the page only
SentinelAtStart(html) == StartsWith(html, Sentinel)

\* line 89
SentinelFound(html) == Includes(html, Sentinel)

\* lines 95-120
parseTelebirrFields(rows) ==
    LET payerName == NextCellText(rows, PayerNameLabel)
        payerTelebirrNumber == NextCellText(rows, PayerNumberLabel)
        creditedPartyName == NextCellText(rows, CreditedPartyLabel)
        paymentType == NextCellText(rows, PaymentReasonLabel)
        accountNumber == NextCellText(rows, BankAccountLabel)
        receipt == ReceiptFields(rows)
        totalAmountPaid == NextCellText(rows, TotalPaidLabel)
    IN  [paymentType |-> JsStr(paymentType),
         payerName |-> JsStr(payerName),
         payerTelebirrNumber |-> JsStr(payerTelebirrNumber),
         creditedPartyName |-> JsStr(creditedPartyName),
         bankAccountNumber |-> OrElse(JsStr(accountNumber), JsStr("Not available")),
         receiptNumber |-> JsStr(receipt.receiptNumber),
         paymentDate |-> JsStr(receipt.paymentDate),
         totalAmountPaid |-> JsStr(totalAmountPaid)]

\* the record parseTelebirr returns when the sentinel check has passed
parseTelebirr(page, l, tid) ==
    [source |-> "Telebirr",
     transactionId |-> tid,
     link |-> l,
     data |-> parseTelebirrFields(page.rows)]

(***************************************************************************)
(* JSON.stringify of a record (line 39): keys in the order the object      *)
(* literals of lines 67-81 and 107-121 write them.                         *)
(***************************************************************************)
EscapeAt(s, i) ==
    IF At(s, i) = "\"" THEN "\\\""
    ELSE IF At(s, i) = "\\" THEN "\\\\"
    ELSE IF At(s, i) = "\n" THEN "\\n"
    ELSE At(s, i)

RECURSIVE Escape(_, _, _)
Escape(s, lo, hi) ==
    IF lo > hi THEN ""
    ELSE IF lo = hi THEN EscapeAt(s, lo)
    ELSE LET mid == (lo + hi) \div 2
         IN  Escape(s, lo, mid) \o Escape(s, mid + 1, hi)

Quote(s) == "\"" \o Escape(s, 1, Len(s)) \o "\""

JsonValue(v) == IF v.type = "null" THEN "null" ELSE Quote(v.value)

CbeKeys ==
    <<"payer", "payerAccount", "receiver", "receiverAccount",
      "paymentDateTime", "referenceNo", "reason", "totalAmount">>

TelebirrKeys ==
    <<"paymentType", "payerName", "payerTelebirrNumber", "creditedPartyName",
      "bankAccountNumber", "receiptNumber", "paymentDate", "totalAmountPaid">>

KeysOf(source) == IF source = "CBE" THEN CbeKeys ELSE TelebirrKeys

RECURSIVE JsonMembers(_, _, _)
JsonMembers(data, keys, k) ==
    IF k > Len(keys) THEN ""
    ELSE (IF k > 1 THEN "," ELSE "") \o Quote(keys[k]) \o ":"
         \o JsonValue(data[keys[k]]) \o JsonMembers(data, keys, k + 1)

Stringify(record) ==
    "{" \o Quote("source") \o ":" \o Quote(record.source) \o ","
        \o Quote("transactionId") \o ":" \o Quote(record.transactionId) \o ","
        \o Quote("link") \o ":" \o Quote(record.link) \o ","
        \o Quote("data") \o ":{"
        \o JsonMembers(record.data, KeysOf(record.source), 1) \o "}}"

(***************************************************************************)
(* The documents the two upstream servers may answer with.                 *)
(*                                                                         *)
(* A CBE receipt is laid out as label, value, next label: the eight labels *)
(* of lines 58-65 in their fixed order, 'Transferred Amount' after the     *)
(* reason and 'Amount in Word' after the total.  A receipt of the family   *)
(* leaves out up to MaxMissing labels (each with its value), may leave out *)
(* the two closing markers, may print the labels in capitals, shows the    *)
(* payer's account masked or in full, and breaks its lines with one of     *)
(* three separators.                                                       *)
(***************************************************************************)
CbeLabels ==
    <<"Payer", "Account", "Receiver", "Account", "Payment Date & Time",
      "Reference No. (VAT Invoice No)", "Reason / Type of service",
      "Total amount debited from customers account">>

CbeLabelsCaps ==
    <<"PAYER", "ACCOUNT", "RECEIVER", "ACCOUNT", "PAYMENT DATE & TIME",
      "REFERENCE NO. (VAT INVOICE NO)", "REASON / TYPE OF SERVICE",
      "TOTAL AMOUNT DEBITED FROM CUSTOMERS ACCOUNT">>

CbeValues(receipt) ==
    <<"ALICE", IF receipt.payerMasked THEN "1****1234" ELSE "1000123456789",
      "BOB", "1****8067", "1/2/2024, 3:04:00 PM", "FT24001ABCD",
      "Fee done via Mobile", "5.00">>

Separators == {" ", "\n", " \r\n  "}

CbeReceipts ==
    [missing : {m \in SUBSET (1..8) : Cardinality(m) <= MaxMissing},
     payerMasked : BOOLEAN,
     markers : BOOLEAN,
     caps : BOOLEAN,
     sep : Separators]

CbeSegment(receipt, k) ==
    IF k \in receipt.missing THEN ""
    ELSE (IF receipt.caps THEN CbeLabelsCaps[k] ELSE CbeLabels[k])
         \o receipt.sep \o CbeValues(receipt)[k] \o "\n"

CbeMarker(receipt, marker, value) ==
    IF receipt.markers THEN marker \o receipt.sep \o value \o "\n" ELSE ""

\* pdfData.text of the receipt
PdfText(receipt) ==
    "\n\n" \o CbeSegment(receipt, 1) \o CbeSegment(receipt, 2)
    \o CbeSegment(receipt, 3) \o CbeSegment(receipt, 4)
    \o CbeSegment(receipt, 5) \o CbeSegment(receipt, 6)
    \o CbeSegment(receipt, 7)
    \o CbeMarker(receipt, "Transferred Amount", "5.00")
    \o CbeSegment(receipt, 8)
    \o CbeMarker(receipt, "Amount in Word", "ETB Five")

\* pdfResponse.data: bytes pdf-parse decodes to the receipt's text, or bytes
\* it rejects
Pdf(receipt) == [decodes |-> TRUE, text |-> PdfText(receipt), receipt |-> receipt]

FullReceipt ==
    [missing |-> {}, payerMasked |-> FALSE, markers |-> TRUE, caps |-> FALSE,
     sep |-> "\n"]

CorruptPdf == [decodes |-> FALSE, text |-> "", receipt |-> FullReceipt]

AllPdfs == {Pdf(receipt) : receipt \in CbeReceipts}

(***************************************************************************)
(* A Telebirr page lists label and value cells row by row, then the        *)
(* receipt header row of td.receipttableTd2 cells with the row of its      *)
(* values below, then the total.  A page of the family leaves out up to    *)
(* MaxMissing label rows, shows the bank account cell filled, empty, blank *)
(* or not at all, shows the header row in full, as a single cell or        *)
(* without the marker class, and may carry the sentinel phrase.            *)
(***************************************************************************)
TelebirrLabels ==
    <<PayerNameLabel, PayerNumberLabel, CreditedPartyLabel, PaymentReasonLabel,
      BankAccountLabel, TotalPaidLabel>>

TelebirrValues ==
    <<"Abebe Kebede", "2519****1234", "Sara Shop", "Payment for goods",
      "1000099887766", "666.00 Birr">>

ReceiptNumberValue == "CHQ0FJ403O"
PaymentDateValue == "16-05-2025 11:57:10"

TelebirrPages ==
    [missing : {m \in SUBSET (1..6) : Cardinality(m) <= MaxMissing},
     bank : {"filled", "empty", "blank", "nocell"},
     header : {"full", "single", "unmarked"},
     sentinel : BOOLEAN]

Td(cls, text) == [cls |-> cls, text |-> text]

\* a value as the page prints it, on a line of its own
Padded(text) == "\n    " \o text \o "\n  "

LabelRow(page, k) ==
    IF k \in page.missing THEN <<>>
    ELSE IF k # 5 \/ page.bank = "filled"
         THEN << <<Td(<<"receipttableTd">>, TelebirrLabels[k]),
                   Td(<<"receipttableTd">>, Padded(TelebirrValues[k]))>> >>
    ELSE IF page.bank = "nocell"
         THEN << <<Td(<<"receipttableTd">>, TelebirrLabels[k])>> >>
    ELSE << <<Td(<<"receipttableTd">>, TelebirrLabels[k]),
              Td(<<"receipttableTd">>, IF page.bank = "blank" THEN "\n   " ELSE "")>> >>

HeaderCls(page) ==
    IF page.header = "unmarked" THEN <<"receipttableTd">>
    ELSE <<"receipttableTd", "receipttableTd2">>

HeaderRows(page) ==
    << IF page.header = "single"
       THEN <<Td(HeaderCls(page), "YeKifiya Kutir/Invoice No.")>>
       ELSE <<Td(HeaderCls(page), "YeKifiya Kutir/Invoice No."),
              Td(HeaderCls(page), "YeKifiya Ken/Payment date"),
              Td(HeaderCls(page), "YeTekefelew Meten/Settled Amount")>>,
       <<Td(<<"receipttableTd">>, Padded(ReceiptNumberValue)),
         Td(<<"receipttableTd">>, Padded(PaymentDateValue)),
         Td(<<"receipttableTd">>, Padded("646.00 Birr"))>> >>

PageRows(page) ==
    LabelRow(page, 1) \o LabelRow(page, 2) \o LabelRow(page, 3)
    \o LabelRow(page, 4) \o LabelRow(page, 5) \o HeaderRows(page)
    \o LabelRow(page, 6)

\* htmlResponse.data and the parts it is made of
Page(page) ==
    [pre |-> IF page.sentinel
             THEN "<p>Sorry! " \o Sentinel \o ", please check.</p>"
             ELSE "<h1>telebirr</h1>",
     rows |-> PageRows(page),
     page |-> page]

FullPage == [missing |-> {}, bank |-> "filled", header |-> "full", sentinel |-> FALSE]

AllPages == {Page(page) : page \in TelebirrPages}

(***************************************************************************)
(* The route (lines 125-153).  A lookup runs from one suspension point to  *)
(* the next in one step: the handler up to the axios.get of the extractor, *)
(* the extractor from there to pdfParse or to its return, and the          *)
(* handler's continuation after the extractor's promise has resolved.      *)
(***************************************************************************)
Lookups == 1..MaxRequests

NoValue == [type |-> "undefined"]

\* no error caught so far
NotThrown == [at |-> "none", message |-> ""]

\* the prefix test replaced by a test for FT anywhere in the identifier
UsesCbeAnywhere(tid) == Includes(tid, "FT")

\* line 134
UsesCbe(tid) == StartsWith(tid, "FT")

\* line 135
CbeLink(tid) == "https://apps.cbe.com.et:100/?id=" \o tid \o "W09338067"

\* line 138
TelebirrLink(tid) == "https://transactioninfo.ethiotelecom.et/receipt/" \o tid

\* lines 134-140: the extractor called and its arguments
Dispatch(tid) ==
    IF UsesCbe(tid)
    THEN [fn |-> "parseFT", link |-> CbeLink(tid), transactionId |-> tid]
    ELSE [fn |-> "parseTelebirr", link |-> TelebirrLink(tid), transactionId |-> tid]

\* lines 127-128
CallerIp(request) ==
    OrElse(OrElse(request.forwardedFor, request.remoteAddress), JsStr("Unknown")).value

CallerAgent(request) == OrElse(request.agent, JsStr("Unknown")).value

\* lines 147-151
FailureBody(message, tid) ==
    [error |-> "Failed to process transaction",
     detail |-> message,
     transactionId |-> tid]

\* the row built from a link shared by all lookups, as a link declared outside
\* the handler would be: it holds what the latest arrival wrote
logToDatabaseSharedLink(r, tid, l, responseData, callerIp, agent) ==
    LET latest == CHOOSE k \in 1..MaxRequests :
                      pc[k] # "idle" /\ \A j \in (k + 1)..MaxRequests : pc[j] = "idle"
    IN  [transactionId |-> tid,
         link |-> link[latest],
         response |-> Stringify(responseData),
         ip |-> callerIp,
         userAgent |-> agent,
         lookup |-> r]

\* lines 36-41: the row the prepared INSERT adds; the timestamp column is
\* left out, and lookup is the bookkeeping of which lookup made the call
logToDatabase(r, tid, l, responseData, callerIp, agent) ==
    [transactionId |-> tid,
     link |-> l,
     response |-> Stringify(responseData),
     ip |-> callerIp,
     userAgent |-> agent,
     lookup |-> r]

\* lines 145-152: the catch block of lookup r, entered from the step named at
Catch(r, at, message) ==
    /\ pc' = [pc EXCEPT ![r] = "done"]
    /\ thrown' = [thrown EXCEPT ![r] = [at |-> at, message |-> message]]
    /\ responses' = [responses EXCEPT ![r] =
           Append(@, [status |-> 500, body |-> FailureBody(message, transactionId[r])])]

Init ==
    /\ pc = [r \in Lookups |-> "idle"]
    /\ transactionId = [r \in Lookups |-> ""]
    /\ link = [r \in Lookups |-> ""]
    /\ calls = [r \in Lookups |-> <<>>]
    /\ fetched = [r \in Lookups |-> NoValue]
    /\ result = [r \in Lookups |-> NoValue]
    /\ responses = [r \in Lookups |-> <<>>]
    /\ thrown = [r \in Lookups |-> NotThrown]
    /\ ip = [r \in Lookups |-> ""]
    /\ userAgent = [r \in Lookups |-> ""]
    /\ logs = <<>>

\* lines 125-140 and the extractor down to its axios.get (line 45 or 86);
\* lookups are numbered in the order they arrive
Receive(r, request) ==
    /\ pc[r] = "idle"
    /\ \A earlier \in 1..(r - 1) : pc[earlier] # "idle"
    /\ transactionId' = [transactionId EXCEPT ![r] = request.transactionId]
    /\ ip' = [ip EXCEPT ![r] = CallerIp(request)]
    /\ userAgent' = [userAgent EXCEPT ![r] = CallerAgent(request)]
    /\ link' = [link EXCEPT ![r] = Dispatch(request.transactionId).link]
    /\ calls' = [calls EXCEPT ![r] = Append(@, Dispatch(request.transactionId))]
    /\ pc' = [pc EXCEPT ![r] = "fetch"]
    /\ UNCHANGED <<fetched, result, responses, thrown, logs>>

\* axios.get rejects (lines 45, 86): network error or non-success status
FetchFailed(r, message) ==
    /\ pc[r] = "fetch"
    /\ Catch(r, "fetch", message)
    /\ UNCHANGED <<transactionId, link, calls, fetched, result, ip, userAgent, logs>>

\* line 45 resolves; parseFT goes on to await pdfParse (line 49)
FetchedPdf(r, pdf) ==
    /\ pc[r] = "fetch"
    /\ calls[r][1].fn = "parseFT"
    /\ fetched' = [fetched EXCEPT ![r] = pdf]
    /\ pc' = [pc EXCEPT ![r] = "decode"]
    /\ UNCHANGED <<transactionId, link, calls, result, responses, thrown, ip,
                   userAgent, logs>>

\* line 49 resolves or rejects; lines 50-81
PdfParsed(r) ==
    /\ pc[r] = "decode"
    /\ IF fetched[r].decodes
       THEN /\ result' = [result EXCEPT ![r] =
                   parseFT(fetched[r].text, calls[r][1].link,
                                 calls[r][1].transactionId)]
            /\ pc' = [pc EXCEPT ![r] = "resolved"]
            /\ UNCHANGED <<responses, thrown>>
       ELSE /\ Catch(r, "decode", "Invalid PDF structure")
            /\ UNCHANGED result
    /\ UNCHANGED <<transactionId, link, calls, fetched, ip, userAgent, logs>>

\* line 86 resolves; lines 87-121
FetchedPage(r, page) ==
    /\ pc[r] = "fetch"
    /\ calls[r][1].fn = "parseTelebirr"
    /\ fetched' = [fetched EXCEPT ![r] = page]
    /\ IF SentinelFound(Html(page))
       THEN /\ Catch(r, "sentinel", InvalidIdMessage)
            /\ UNCHANGED result
       ELSE /\ result' = [result EXCEPT ![r] =
                   parseTelebirr(page, calls[r][1].link,
                                       calls[r][1].transactionId)]
            /\ pc' = [pc EXCEPT ![r] = "resolved"]
            /\ UNCHANGED <<responses, thrown>>
    /\ UNCHANGED <<transactionId, link, calls, ip, userAgent, logs>>

\* lines 142-143 without the call of logToDatabase
FinishUnlogged(r, outcome) ==
    /\ pc[r] = "resolved"
    /\ outcome = "sent"
    /\ responses' = [responses EXCEPT ![r] =
           Append(@, [status |-> 200, body |-> result[r]])]
    /\ pc' = [pc EXCEPT ![r] = "done"]
    /\ UNCHANGED <<transactionId, link, calls, fetched, result, thrown, ip,
                   userAgent, logs>>

\* what lines 142-143 may do: both calls return, logToDatabase throws before
\* its INSERT is run, or res.json throws before anything is sent
Outcomes == {"sent", "logThrows", "sendThrows"}

\* lines 142-143 and, when one of them throws, lines 145-152
Finish(r, outcome) ==
    /\ pc[r] = "resolved"
    /\ logs' = IF outcome = "logThrows" THEN logs
               ELSE Append(logs, logToDatabase(r, transactionId[r], link[r], result[r],
                                        ip[r], userAgent[r]))
    /\ IF outcome = "sent"
       THEN /\ responses' = [responses EXCEPT ![r] =
                   Append(@, [status |-> 200, body |-> result[r]])]
            /\ pc' = [pc EXCEPT ![r] = "done"]
            /\ UNCHANGED thrown
       ELSE Catch(r, IF outcome = "logThrows" THEN "log" ELSE "send",
                  IF outcome = "logThrows" THEN "SQLITE_MISUSE: Database is closed"
                  ELSE "Cannot set headers after they are sent to the client")
    /\ UNCHANGED <<transactionId, link, calls, fetched, result, ip, userAgent>>

FetchErrors == {"Request failed with status code 404", "connect ETIMEDOUT"}

(***************************************************************************)
(* Spec: MaxRequests lookups interleaved, a few requests and documents.    *)
(***************************************************************************)
Request(tid, forwardedFor, agent) ==
    [transactionId |-> tid, forwardedFor |-> forwardedFor,
     remoteAddress |-> JsStr("127.0.0.1"), agent |-> agent]

Requests ==
    {Request("FT24001ABCD", JsStr("203.0.113.9"), JsStr("curl/8.0")),
     Request("CHQ0FJ403O", JsNull, JsStr("okhttp/4.9")),
     Request("XFT9", JsStr("198.51.100.7"), JsNull),
     Request("ft24001abcd", JsNull, JsNull)}

Pdfs == {Pdf(FullReceipt), CorruptPdf}

Pages == {Page(FullPage), Page([FullPage EXCEPT !.sentinel = TRUE])}

Next ==
    \E r \in Lookups :
        \/ \E request \in Requests : Receive(r, request)
        \/ FetchFailed(r, "connect ETIMEDOUT")
        \/ \E pdf \in Pdfs : FetchedPdf(r, pdf)
        \/ PdfParsed(r)
        \/ \E page \in Pages : FetchedPage(r, page)
        \/ \E outcome \in Outcomes : Finish(r, outcome)

Spec == Init /\ [][Next]_vars

(***************************************************************************)
(* SpecDocs: one lookup at a time over every receipt and every page of the *)
(* two families.                                                           *)
(***************************************************************************)
DocRequests ==
    {Request("FT24001ABCD", JsNull, JsStr("curl/8.0")),
     Request("CHQ0FJ403O", JsStr("203.0.113.9"), JsNull)}

NextDocs ==
    \/ \E request \in DocRequests : Receive(1, request)
    \/ \E message \in FetchErrors : FetchFailed(1, message)
    \/ \E pdf \in AllPdfs \cup {CorruptPdf} : FetchedPdf(1, pdf)
    \/ PdfParsed(1)
    \/ \E page \in AllPages : FetchedPage(1, page)
    \/ \E outcome \in Outcomes : Finish(1, outcome)

SpecDocs == Init /\ [][NextDocs]_vars

(***************************************************************************)
(* Properties of the route.                                                *)
(***************************************************************************)
\* the rows of the logs table that lookup r inserted
RowsOf(r) == {i \in 1..Len(logs) : logs[i].lookup = r}

\* lookup r has sent the success response
Succeeded(r) ==
    pc[r] = "done" /\ \E k \in 1..Len(responses[r]) : responses[r][k].status = 200

\* lookup r has sent the failure response
Failed(r) ==
    pc[r] = "done" /\ \E k \in 1..Len(responses[r]) : responses[r][k].status = 500

\* C1: a lookup whose identifier starts with the two characters FT has
\* called parseFT, any other lookup has called parseTelebirr, in both cases
\* with its own identifier and a URL that contains it, and no lookup ever
\* calls more than one extractor.
C1_DispatchByPrefix ==
    \A r \in Lookups :
        pc[r] # "idle" =>
            LET tid == transactionId[r]
                prefixed == Len(tid) >= 2 /\ At(tid, 1) = "F" /\ At(tid, 2) = "T"
            IN  /\ tid # ""
                /\ Len(calls[r]) = 1
                /\ calls[r][1].fn = IF prefixed THEN "parseFT" ELSE "parseTelebirr"
                /\ calls[r][1].transactionId = tid
                /\ calls[r][1].link = link[r]
                /\ Includes(link[r], tid)

C1_Witness ==
    \E a, b \in Lookups :
        /\ pc[a] = "done" /\ pc[b] = "done"
        /\ transactionId[a] = "FT24001ABCD" /\ calls[a][1].fn = "parseFT"
        /\ transactionId[b] = "XFT9" /\ calls[b][1].fn = "parseTelebirr"

\* C2: a lookup whose fetch failed, whose PDF did not decode or whose page
\* held the sentinel phrase has answered with the failure response and has
\* no row in the audit log; a lookup that answered with the success response
\* has exactly one row; and every row belongs to a lookup whose extractor
\* returned a record.
C2_LogOnlyAfterResolution ==
    \A r \in Lookups :
        /\ thrown[r].at \in {"fetch", "decode", "sentinel"} =>
               /\ Failed(r)
               /\ ~Succeeded(r)
               /\ RowsOf(r) = {}
        /\ Succeeded(r) => Cardinality(RowsOf(r)) = 1
        /\ RowsOf(r) # {} => result[r] # NoValue /\ thrown[r].at \notin {"fetch", "decode", "sentinel"}

C2_Witness ==
    \E a, b \in Lookups :
        /\ thrown[a].at = "fetch" /\ Failed(a) /\ RowsOf(a) = {}
        /\ Succeeded(b) /\ Cardinality(RowsOf(b)) = 1

\* C3: a finished lookup has sent exactly one response, and either that is
\* the complete record and nothing was caught, or it is the failure response
\* and the lookup has left no record behind in the audit log.
C3_OneOutcome ==
    \A r \in Lookups :
        pc[r] = "done" =>
            /\ Len(responses[r]) = 1
            /\ \/ /\ responses[r][1].status = 200
                  /\ responses[r][1].body = result[r]
                  /\ DOMAIN responses[r][1].body = {"source", "transactionId", "link", "data"}
                  /\ thrown[r] = NotThrown
               \/ /\ responses[r][1].status = 500
                  /\ responses[r][1].body =
                         FailureBody(thrown[r].message, transactionId[r])
                  /\ RowsOf(r) = {}

\* the URL of lookup r's own identifier and the fields of its own document
OwnLink(r) ==
    IF calls[r][1].fn = "parseFT"
    THEN CbeLink(transactionId[r])
    ELSE TelebirrLink(transactionId[r])

\* what each extractor makes of each document of Spec, and the serialized
\* record of each identifier with each document
FieldsOfPdf == [pdf \in Pdfs |-> parseFTFields(FlattenText(pdf.text))]

FieldsOfPage == [page \in Pages |-> parseTelebirrFields(page.rows)]

RecordOf(tid, document) ==
    IF Len(tid) >= 2 /\ SubSeq(tid, 1, 2) = "FT"
    THEN [source |-> "CBE", transactionId |-> tid, link |-> CbeLink(tid),
          data |-> FieldsOfPdf[document]]
    ELSE [source |-> "Telebirr", transactionId |-> tid, link |-> TelebirrLink(tid),
          data |-> FieldsOfPage[document]]

Resolvable ==
    {<<request.transactionId, pdf>> :
        request \in {q \in Requests : UsesCbe(q.transactionId)},
        pdf \in {d \in Pdfs : d.decodes}}
    \cup
    {<<request.transactionId, page>> :
        request \in {q \in Requests : ~UsesCbe(q.transactionId)},
        page \in {d \in Pages : ~d.page.sentinel}}

SerializedOf == [pair \in Resolvable |-> Stringify(RecordOf(pair[1], pair[2]))]

OwnRecord(r) == RecordOf(transactionId[r], fetched[r])

\* C5: however lookups interleave, the success response of a lookup is the
\* record of its own identifier, its own URL and its own document; every
\* row of the audit log holds the identifier, the URL, the caller and the
\* serialized record of the one lookup that inserted it; and a lookup that
\* answered with the success response has inserted exactly one row.
C5_LookupsIndependent ==
    /\ \A r \in Lookups :
           Succeeded(r) =>
               /\ responses[r] = <<[status |-> 200, body |-> OwnRecord(r)]>>
               /\ Cardinality(RowsOf(r)) = 1
    /\ \A i \in 1..Len(logs) :
           LET r == logs[i].lookup
           IN  /\ logs[i].transactionId = transactionId[r]
               /\ logs[i].link = OwnLink(r)
               /\ logs[i].response = SerializedOf[<<transactionId[r], fetched[r]>>]
               /\ logs[i].ip = ip[r]
               /\ logs[i].userAgent = userAgent[r]
               /\ \A k \in 1..Len(logs) : logs[k].lookup = r => k = i

\* two successful lookups of different networks, the later arrival logged
\* first
C5_Witness ==
    /\ Len(logs) = 2
    /\ logs[1].lookup = 2 /\ logs[2].lookup = 1
    /\ Succeeded(1) /\ Succeeded(2)
    /\ result[1].source # result[2].source

(***************************************************************************)
(* Properties of the two extractors, over the document families.           *)
(***************************************************************************)
\* lookup r holds a record returned by parseFT / by parseTelebirr
CbeResolved(r) == result[r] # NoValue /\ calls[r][1].fn = "parseFT"
TelebirrResolved(r) == result[r] # NoValue /\ calls[r][1].fn = "parseTelebirr"

\* C4: every record an extractor returns has the four members source,
\* transactionId, link and data, carries the tag of the extractor the route
\* called, and its data map has exactly the eight keys of that source's
\* schema, whichever labels the document holds.
C4_SchemaKeys ==
    \A r \in Lookups :
        result[r] # NoValue =>
            /\ DOMAIN result[r] = {"source", "transactionId", "link", "data"}
            /\ result[r].source =
                   IF calls[r][1].fn = "parseFT" THEN "CBE" ELSE "Telebirr"
            /\ DOMAIN result[r].data =
                   IF result[r].source = "CBE"
                   THEN {"payer", "payerAccount", "receiver", "receiverAccount",
                         "paymentDateTime", "referenceNo", "reason", "totalAmount"}
                   ELSE {"paymentType", "payerName", "payerTelebirrNumber",
                         "creditedPartyName", "bankAccountNumber", "receiptNumber",
                         "paymentDate", "totalAmountPaid"}

\* a CBE record made from a receipt that lacks two labels and both markers
C4_Witness ==
    /\ CbeResolved(1)
    /\ fetched[1].receipt.missing = {5, 6}
    /\ ~fetched[1].receipt.markers
    /\ result[1].data.paymentDateTime = JsNull

\* C6: a Telebirr page that carries the sentinel phrase ends its lookup in
\* the failure response with the invalid-identifier message, with no record
\* and no audit row; a page without the phrase is never failed by the sentinel test
\* and yields a record.
C6_SentinelFatal ==
    \A r \in Lookups :
        (fetched[r] # NoValue /\ calls[r][1].fn = "parseTelebirr") =>
            IF fetched[r].page.sentinel
            THEN /\ pc[r] = "done"
                 /\ thrown[r] = [at |-> "sentinel",
                                 message |-> "Invalid Telebirr transaction ID"]
                 /\ result[r] = NoValue
                 /\ responses[r] =
                        <<[status |-> 500,
                           body |-> [error |-> "Failed to process transaction",
                                     detail |-> "Invalid Telebirr transaction ID",
                                     transactionId |-> transactionId[r]]]>>
                 /\ RowsOf(r) = {}
            ELSE /\ thrown[r].at # "sentinel"
                 /\ result[r] # NoValue

\* the sentinel phrase on a page that also holds every label and value
C6_Witness ==
    /\ pc[1] = "done"
    /\ fetched[1] # NoValue
    /\ calls[1][1].fn = "parseTelebirr"
    /\ fetched[1].page.sentinel
    /\ fetched[1].page.missing = {}
    /\ thrown[1].at = "sentinel"

\* C7: from a receipt that holds all eight labels and both closing markers,
\* every field is the value printed after its own label, the total with
\* ' ETB' appended.
C7_EveryFieldFromItsLabel ==
    \A r \in Lookups :
        (CbeResolved(r) /\ fetched[r].receipt.missing = {}
                        /\ fetched[r].receipt.markers) =>
            LET value == CbeValues(fetched[r].receipt)
            IN  result[r].data =
                    [payer |-> JsStr(value[1]),
                     payerAccount |-> JsStr(value[2]),
                     receiver |-> JsStr(value[3]),
                     receiverAccount |-> JsStr(value[4]),
                     paymentDateTime |-> JsStr(value[5]),
                     referenceNo |-> JsStr(value[6]),
                     reason |-> JsStr(value[7]),
                     totalAmount |-> JsStr(value[8] \o " ETB")]

\* the field of the k-th label of the receipt layout
CbeField(data, k) ==
    <<data.payer, data.payerAccount, data.receiver, data.receiverAccount,
      data.paymentDateTime, data.referenceNo, data.reason, data.totalAmount>>[k]

\* C8 as stated: a receipt that lacks labels decodes to a record, with no
\* error, in which payerAccount and totalAmount are 'Unknown' when their
\* label is absent and every other field whose label is absent is null.
C8_AbsentFieldsNull ==
    \A r \in Lookups :
        (fetched[r] # NoValue /\ calls[r][1].fn = "parseFT" /\ fetched[r].decodes
            /\ pc[r] \in {"resolved", "done"}) =>
            /\ result[r] # NoValue
            /\ thrown[r].at \notin {"fetch", "decode", "sentinel"}
            /\ \A k \in fetched[r].receipt.missing :
                   CbeField(result[r].data, k) =
                       IF k \in {2, 8} THEN JsStr("Unknown") ELSE JsNull

\* C8 as amended: the same, except that receiverAccount is never null; it is
\* the literal 1000009338067 when the receipt shows no masked account at all.
C8_AbsentFieldsDegrade ==
    \A r \in Lookups :
        (fetched[r] # NoValue /\ calls[r][1].fn = "parseFT" /\ fetched[r].decodes
            /\ pc[r] \in {"resolved", "done"}) =>
            /\ result[r] # NoValue
            /\ thrown[r].at \notin {"fetch", "decode", "sentinel"}
            /\ \A k \in fetched[r].receipt.missing \ {4} :
                   CbeField(result[r].data, k) =
                       IF k \in {2, 8} THEN JsStr("Unknown") ELSE JsNull
            /\ result[r].data.receiverAccount # JsNull
            /\ (/\ 4 \in fetched[r].receipt.missing
                /\ (2 \in fetched[r].receipt.missing \/ ~fetched[r].receipt.payerMasked))
                   => result[r].data.receiverAccount = JsStr("1000009338067")

\* a record made from a receipt without the payer's account label
C8_Witness ==
    /\ CbeResolved(1)
    /\ fetched[1].receipt.missing = {2}
    /\ result[1].data.payerAccount = JsStr("Unknown")
    /\ result[1].data.payer # JsNull

\* C10: receiverAccount is the literal 1000009338067 when the receipt shows
\* no masked receiver account before the payment date label, and the masked
\* account printed on the receipt when it does.
C10_ReceiverAccountFromDocument ==
    \A r \in Lookups :
        CbeResolved(r) =>
            result[r].data.receiverAccount =
                IF {4, 5} \cap fetched[r].receipt.missing = {}
                THEN JsStr(CbeValues(fetched[r].receipt)[4])
                ELSE JsStr("1000009338067")

\* what a page of the family prints for the k-th label: the value, or
\* nothing when the label row is left out
Printed(page, k) == IF k \in page.missing THEN "" ELSE TelebirrValues[k]

\* C9: in the record made from a Telebirr page, bankAccountNumber is 'Not
\* available' when the bank account cell is empty, blank or not there, and
\* the printed account otherwise; every label-adjacent field is the trimmed
\* text of the cell after its own label, and the empty string when the page
\* lacks that row; receiptNumber and paymentDate are the trimmed texts of the
\* first and second cell of the row below the marker cell, and the empty
\* string when the marker cell, or for paymentDate its right-hand neighbour,
\* is not there.
C9_TelebirrCells ==
    \A r \in Lookups :
        TelebirrResolved(r) =>
            LET page == fetched[r].page
            IN  /\ thrown[r].at \notin {"fetch", "decode", "sentinel"}
                /\ result[r].data =
                    [paymentType |-> JsStr(Printed(page, 4)),
                     payerName |-> JsStr(Printed(page, 1)),
                     payerTelebirrNumber |-> JsStr(Printed(page, 2)),
                     creditedPartyName |-> JsStr(Printed(page, 3)),
                     bankAccountNumber |->
                         IF 5 \in page.missing \/ page.bank # "filled"
                         THEN JsStr("Not available")
                         ELSE JsStr(TelebirrValues[5]),
                     receiptNumber |->
                         JsStr(IF page.header = "unmarked" THEN ""
                               ELSE "CHQ0FJ403O"),
                     paymentDate |->
                         JsStr(IF page.header = "full" THEN "16-05-2025 11:57:10"
                               ELSE ""),
                     totalAmountPaid |-> JsStr(Printed(page, 6))]

\* every label present, the bank account cell empty
C9_Witness ==
    /\ TelebirrResolved(1)
    /\ fetched[1].page.missing = {}
    /\ fetched[1].page.bank = "empty"
    /\ fetched[1].page.header = "full"
    /\ result[1].data.bankAccountNumber = JsStr("Not available")
    /\ result[1].data.payerName = JsStr("Abebe Kebede")

====
